---- MODULE Spec2Model ----
(***************************************************************************)
(* Model of app/main.py, the Google Merchant Center feed validator:        *)
(* validate_gmc_bytes (header allowlist, per-row rules, aggregation) and   *)
(* the helpers it calls.  Python str values are TLA+ strings; a character  *)
(* is a string of length 1.  A Python dict is a sequence of <<key, value>> *)
(* pairs with distinct keys, in insertion order.                           *)
(***************************************************************************)
EXTENDS Integers, Sequences, FiniteSets, TLC

VARIABLES
    data,            \* the uploaded feed, as the csv / json modules parse it
    profile_in,      \* the profile form parameter, as sent
    GMC_SPEC,        \* profile name -> set of field names of specs/gmc_spec.json
    pc,              \* position in validate_gmc_bytes
    records,         \* list of normalized records
    parsed_headers,  \* list of normalized header names
    profile,         \* the normalized profile
    issues,          \* the issue list
    error_rows,      \* set of row indexes that _push_issue recorded
    idx,             \* loop index of the per-row loop
    total_rows,      \* rows counted by the per-row loop
    response,        \* the ValidateResponse returned
    exc,             \* the exception that left validate_gmc_bytes, "" if none
    g_in,            \* argument of a direct _gtin_checksum_ok call
    g_out,           \* its result
    g_flips          \* single-digit replacements applied to g_in so far

vars == <<data, profile_in, GMC_SPEC, pc, records, parsed_headers, profile,
          issues, error_rows, idx, total_rows, response, exc, g_in, g_out, g_flips>>

feedVars == <<data, profile_in, GMC_SPEC, pc, records, parsed_headers, profile,
              issues, error_rows, idx, total_rows, response, exc>>

gtinVars == <<g_in, g_out, g_flips>>

-----------------------------------------------------------------------------
(* Python str primitives *)

Ch(s, i) == SubSeq(s, i, i)

DecimalDigits == "0123456789"

\* characters str.isdigit() accepts although int() rejects them
SuperscriptDigits == {"²", "³", "¹"}

UpperLetters == "ABCDEFGHIJKLMNOPQRSTUVWXYZ"

LowerLetters == "abcdefghijklmnopqrstuvwxyz"

IndexIn(alphabet, c) ==
    IF \E i \in 1..Len(alphabet) : Ch(alphabet, i) = c
    THEN CHOOSE i \in 1..Len(alphabet) : Ch(alphabet, i) = c
    ELSE 0

CharsOf(alphabet) == {Ch(alphabet, i) : i \in 1..Len(alphabet)}

DecimalSet == CharsOf(DecimalDigits)

UpperSet == CharsOf(UpperLetters)

\* int(c) for the decimal digits
DigitValue == [c \in DecimalSet |-> IndexIn(DecimalDigits, c) - 1]

\* c.lower() for the upper-case letters
LowerOf == [c \in UpperSet |-> Ch(LowerLetters, IndexIn(UpperLetters, c))]

\* \d of the re module on the characters of the model
IsDecimal(c) == c \in DecimalSet

\* str.isdigit()
IsDigit(c) == IsDecimal(c) \/ c \in SuperscriptDigits

IsUpper(c) == c \in UpperSet

\* str.isspace(), what strip() removes and \s matches
IsSpace(c) == c \in {" ", "\t"}

RECURSIVE LStrip(_)
LStrip(s) == IF Len(s) > 0 /\ IsSpace(Ch(s, 1)) THEN LStrip(Tail(s)) ELSE s

RECURSIVE RStrip(_)
RStrip(s) ==
    IF Len(s) > 0 /\ IsSpace(Ch(s, Len(s)))
    THEN RStrip(SubSeq(s, 1, Len(s) - 1))
    ELSE s

\* str.strip()
Strip(s) == RStrip(LStrip(s))

LowerCh(c) == IF IsUpper(c) THEN LowerOf[c] ELSE c

RECURSIVE Lower(_)
\* str.lower()
Lower(s) == IF Len(s) = 0 THEN "" ELSE LowerCh(Ch(s, 1)) \o Lower(Tail(s))

RECURSIVE Replace(_, _, _)
\* str.replace(a, b) for a single character a
Replace(s, a, b) ==
    IF Len(s) = 0 THEN ""
    ELSE (IF Ch(s, 1) = a THEN b ELSE Ch(s, 1)) \o Replace(Tail(s), a, b)

AllDecimal(s) == \A i \in 1..Len(s) : IsDecimal(Ch(s, i))

AllUpper(s) == \A i \in 1..Len(s) : IsUpper(Ch(s, i))

RECURSIVE StrOfNat(_)
\* str(n) for an int n >= 0
StrOfNat(n) ==
    IF n < 10 THEN Ch(DecimalDigits, n + 1)
    ELSE StrOfNat(n \div 10) \o Ch(DecimalDigits, (n % 10) + 1)

-----------------------------------------------------------------------------
(* Python dict as a sequence of <<key, value>> pairs *)

DictHas(d, k) == \E i \in 1..Len(d) : d[i][1] = k

DictPos(d, k) == CHOOSE i \in 1..Len(d) : d[i][1] = k

\* d.get(k, default)
DictGet(d, k, default) == IF DictHas(d, k) THEN d[DictPos(d, k)][2] ELSE default

\* d[k] = v
DictSet(d, k, v) ==
    IF DictHas(d, k) THEN [d EXCEPT ![DictPos(d, k)] = <<k, v>>]
    ELSE Append(d, <<k, v>>)

\* list(d.keys())
DictKeys(d) == [i \in 1..Len(d) |-> d[i][1]]

\* values as the parsers deliver them: a str, None, an int, or the list
\* csv.DictReader stores under restkey
StrVal(s) == [t |-> "str", s |-> s, n |-> 0]

NoneVal == [t |-> "none", s |-> "", n |-> 0]

IntVal(n) == [t |-> "int", s |-> "", n |-> n]

-----------------------------------------------------------------------------
(* Regex / enums / helpers *)

GMC_AVAIL == {"in_stock", "out_of_stock", "preorder", "backorder"}

GMC_GENDER == {"male", "female", "unisex"}

GMC_AGE == {"newborn", "infant", "toddler", "kids", "adult"}

\* CURRENCY_PRICE_RE.match(s): ^\d+(\.\d{1,2})?\s[A-Z]{3}$
CurrencyTail(t) ==
    /\ Len(t) = 4
    /\ IsSpace(Ch(t, 1))
    /\ AllUpper(SubSeq(t, 2, 4))

CURRENCY_PRICE_RE(s) ==
    \E i \in 1..Len(s) :
        /\ AllDecimal(SubSeq(s, 1, i))
        /\ \/ CurrencyTail(SubSeq(s, i + 1, Len(s)))
           \/ \E k \in 1..2 :
                /\ Len(s) >= i + 1 + k
                /\ Ch(s, i + 1) = "."
                /\ AllDecimal(SubSeq(s, i + 2, i + 1 + k))
                /\ CurrencyTail(SubSeq(s, i + 2 + k, Len(s)))

\* ISO_DATE_RE.match(s): ^\d{4}-\d{2}-\d{2}$
ISO_DATE_RE(s) ==
    /\ Len(s) = 10
    /\ AllDecimal(SubSeq(s, 1, 4))
    /\ Ch(s, 5) = "-"
    /\ AllDecimal(SubSeq(s, 6, 7))
    /\ Ch(s, 8) = "-"
    /\ AllDecimal(SubSeq(s, 9, 10))

HEADER_ALIASES ==
    << <<"image link", "image_link">>,
       <<"image-url", "image_link">>,
       <<"imageurl", "image_link">>,
       <<"product link", "link">>,
       <<"product-url", "link">>,
       <<"producturl", "link">>,
       <<"price_amount", "price">>,
       <<"availability_status", "availability">>,
       <<"sellername", "seller_name">>,
       <<"seller url", "seller_url">>,
       <<"sellerurl", "seller_url">>,
       <<"return policy", "return_policy">>,
       <<"return window", "return_window">> >>

\* _norm(v) on a str
_norm(v) == Strip(v)

\* the body of normalize_key
NormalizeKeyOf(k) ==
    LET kk == Replace(Replace(Lower(Strip(k)), "-", "_"), " ", "_")
    IN  DictGet(HEADER_ALIASES, kk, kk)

\* the header names and record keys that occur in the feeds below, raw and normalized
FeedKeys ==
    {"id", "title", "description", "link", "image_link", "availability", "price", "gtin",
     "brand", "mpn", "availability_date", "identifier_exists", "item_group_id", "gender",
     "age_group", "color", "size", "store_code", "quantity", "Foo Bar", "foo_bar",
     "Image Link", "price_amount", "PRICE", "Availability_Status", "Foo", "foo", "Title",
     "price-amount"}

\* NormalizeKeyOf tabulated on FeedKeys, so that it is computed once per key
NormalizedFeedKeys == [k \in FeedKeys |-> NormalizeKeyOf(k)]

normalize_key(k) == IF k \in FeedKeys THEN NormalizedFeedKeys[k] ELSE NormalizeKeyOf(k)

RECURSIVE DigitsOf(_)
\* [c for c in s if c.isdigit()]
DigitsOf(s) ==
    IF Len(s) = 0 THEN ""
    ELSE (IF IsDigit(Ch(s, 1)) THEN Ch(s, 1) ELSE "") \o DigitsOf(Tail(s))

\* int(c) of a decimal digit
IntOf(c) == DigitValue[c]

RECURSIVE WeightedSum(_, _)
\* the loop over body = nums[:-1][::-1], enumerate(body, start=1):
\* body is walked from its last digit, i counts from 1
WeightedSum(body, i) ==
    IF Len(body) = 0 THEN 0
    ELSE IntOf(Ch(body, Len(body))) * (IF i % 2 = 1 THEN 3 ELSE 1)
         + WeightedSum(SubSeq(body, 1, Len(body) - 1), i + 1)

\* "true" / "false", or "ValueError" when int() rejects a character
_gtin_checksum_ok(s) ==
    LET digits == DigitsOf(s)
    IN  IF Len(digits) \notin {8, 12, 13, 14} THEN "false"
        ELSE IF ~AllDecimal(digits) THEN "ValueError"
        ELSE LET check == IntOf(Ch(digits, Len(digits)))
                 total == WeightedSum(SubSeq(digits, 1, Len(digits) - 1), 1)
                 calc  == (10 - (total % 10)) % 10
             IN  IF calc = check THEN "true" ELSE "false"

-----------------------------------------------------------------------------
(* Parsing: the two branches at the head of validate_gmc_bytes *)

RECURSIVE ZipDict(_, _, _, _)
\* dict(zip(fieldnames, row)) of csv.DictReader, with restval None for the
\* fieldnames the row has no cell for
ZipDict(fieldnames, row, i, acc) ==
    IF i > Len(fieldnames) THEN acc
    ELSE ZipDict(fieldnames, row, i + 1,
                 DictSet(acc, fieldnames[i],
                         IF i <= Len(row) THEN StrVal(row[i]) ELSE NoneVal))

\* the rows csv.DictReader yields: blank lines are skipped
RECURSIVE DictReaderRows(_)
DictReaderRows(rows) ==
    IF Len(rows) = 0 THEN <<>>
    ELSE (IF Len(Head(rows)) = 0 THEN <<>> ELSE <<Head(rows)>>)
         \o DictReaderRows(Tail(rows))

\* a row with more cells than fieldnames carries a list under the key None
HasRestKey(fieldnames, row) == Len(row) > Len(fieldnames)

RECURSIVE CsvRecord(_, _, _)
\* {normalize_key(k): (v or "").strip() for k, v in row.items()} for a row
\* without a list value
CsvRecord(d, i, acc) ==
    IF i > Len(d) THEN acc
    ELSE CsvRecord(d, i + 1,
                   DictSet(acc, normalize_key(d[i][1]),
                           IF d[i][2].t = "str" THEN Strip(d[i][2].s) ELSE ""))

RECURSIVE normalize_record_keys(_, _, _)
\* nr[normalize_key(str(k))] = v for the items of r
normalize_record_keys(r, i, acc) ==
    IF i > Len(r) THEN acc
    ELSE normalize_record_keys(r, i + 1, DictSet(acc, normalize_key(r[i][1]), r[i][2]))

\* str(v) of a JSON value that is not None
PyStr(v) == IF v.t = "int" THEN StrOfNat(v.n) ELSE v.s

RECURSIVE JsonRecord(_, _, _)
\* {normalize_key(k): ("" if v is None else str(v)).strip() for k, v in row.items()}
JsonRecord(r, i, acc) ==
    IF i > Len(r) THEN acc
    ELSE JsonRecord(r, i + 1,
                    DictSet(acc, normalize_key(r[i][1]),
                            IF r[i][2].t = "none" THEN "" ELSE Strip(PyStr(r[i][2]))))

\* parse_as_json of a JSON list of objects
parse_as_json(objs) == [i \in 1..Len(objs) |-> normalize_record_keys(objs[i], 1, <<>>)]

-----------------------------------------------------------------------------
(* _push_issue and _bad_headers *)

Issue(row_index, item_id, field, rule_id, severity, message, sample) ==
    [row_index |-> row_index, item_id |-> item_id, field |-> field,
     rule_id |-> rule_id, severity |-> severity, message |-> message,
     sample_value |-> sample]

\* the pair (issues, error_rows) after one _push_issue call
_push_issue(st, row_index, item_id, field, rule_id, severity, message, sample) ==
    [issues |-> Append(st.issues,
                       Issue(row_index, item_id, field, rule_id, severity, message, sample)),
     error_rows |-> IF severity = "error" /\ row_index >= 0
                    THEN st.error_rows \cup {row_index}
                    ELSE st.error_rows]

\* GMC_SPEC.get("profiles", {}).get(profile, []) as a set of names
AllowedHeaders(spec, p) == IF p \in DOMAIN spec THEN spec[p] ELSE {}

RECURSIVE _bad_headers(_, _, _)
\* [h for h in headers if h not in allowed]
_bad_headers(headers, spec, p) ==
    IF Len(headers) = 0 THEN <<>>
    ELSE (IF Head(headers) \notin AllowedHeaders(spec, p) THEN <<Head(headers)>> ELSE <<>>)
         \o _bad_headers(Tail(headers), spec, p)

\* the row index the header loop passes to _push_issue
HEADER_ROW_INDEX == 0

RECURSIVE PushBadHeaders(_, _, _)
PushBadHeaders(st, bad, p) ==
    IF Len(bad) = 0 THEN st
    ELSE PushBadHeaders(
            _push_issue(st, HEADER_ROW_INDEX, "", Head(bad), "GMC-001", "error",
                        "Header \"" \o Head(bad) \o "\" is not allowed for profile \""
                            \o p \o "\".",
                        Head(bad)),
            Tail(bad), p)

\* (profile or "general").strip().lower()
NormalizeProfile(p) == Lower(Strip(IF p = "" THEN "general" ELSE p))

-----------------------------------------------------------------------------
(* The per-row checks of validate_gmc_bytes *)

REQUIRED_BASE == <<"id", "title", "description", "link", "image_link", "availability", "price">>

REQUIRED_APPAREL == <<"item_group_id", "gender", "age_group", "color", "size">>

REQUIRED_LOCAL == <<"store_code", "id", "price", "availability">>

\* req testing whether the key is absent instead of whether the value is empty
req_KeyAbsent(st, r, i, field, code, msg) ==
    IF ~DictHas(r, field)
    THEN _push_issue(st, i, DictGet(r, "id", ""), field, code, "error", msg, "")
    ELSE st

\* the closure req(field, code, msg); an item_id of "" stands for None
req(st, r, i, field, code, msg) ==
    IF _norm(DictGet(r, field, "")) = ""
    THEN _push_issue(st, i, DictGet(r, "id", ""), field, code, "error", msg, "")
    ELSE st

RECURSIVE ReqAll(_, _, _, _, _, _)
\* for f in fields: req(f, code, f"{f}<suffix>")
ReqAll(st, r, i, fields, code, suffix) ==
    IF Len(fields) = 0 THEN st
    ELSE ReqAll(req(st, r, i, Head(fields), code, Head(fields) \o suffix),
                r, i, Tail(fields), code, suffix)

RequiredChecks(st, r, i, p) ==
    LET s1 == IF p \in {"general", "apparel"}
              THEN ReqAll(st, r, i, REQUIRED_BASE, "GMC-100", " is required.")
              ELSE st
        s2 == IF p = "apparel"
              THEN ReqAll(s1, r, i, REQUIRED_APPAREL, "GMC-101", " is required for apparel.")
              ELSE s1
    IN  IF p = "local_inventory"
        THEN ReqAll(s2, r, i, REQUIRED_LOCAL, "GMC-102", " is required for local_inventory.")
        ELSE s2

PriceCheck(st, r, i) ==
    IF _norm(DictGet(r, "price", "")) # "" /\ ~CURRENCY_PRICE_RE(DictGet(r, "price", ""))
    THEN _push_issue(st, i, DictGet(r, "id", ""), "price", "GMC-200", "error",
                     "price must be \"<amount> <ISO4217>\", e.g., \"15.00 USD\".",
                     DictGet(r, "price", ""))
    ELSE st

AvailabilityCheck(st, r, i) ==
    LET av == Lower(DictGet(r, "availability", ""))
        s1 == IF av # "" /\ av \notin GMC_AVAIL
              THEN _push_issue(st, i, DictGet(r, "id", ""), "availability", "GMC-210", "error",
                       "availability must be in_stock, out_of_stock, preorder, or backorder.",
                       av)
              ELSE st
        ad == DictGet(r, "availability_date", "")
    IN  IF av = "preorder" /\ (ad = "" \/ ~ISO_DATE_RE(ad))
        THEN _push_issue(s1, i, DictGet(r, "id", ""), "availability_date", "GMC-211", "error",
                 "availability_date (ISO 8601) required when availability=preorder.", ad)
        ELSE s1

\* the GTIN / brand+mpn block; exc is the exception _gtin_checksum_ok raised
IdentifierCheck(st, r, i) ==
    LET gtin  == _norm(DictGet(r, "gtin", ""))
        brand == _norm(DictGet(r, "brand", ""))
        mpn   == _norm(DictGet(r, "mpn", ""))
    IN  IF gtin # ""
        THEN LET ok == _gtin_checksum_ok(gtin)
             IN  IF ok = "ValueError" THEN [st |-> st, exc |-> "ValueError"]
                 ELSE IF ok = "false"
                 THEN [st |-> _push_issue(st, i, DictGet(r, "id", ""), "gtin", "GMC-220",
                                  "warning", "GTIN checksum appears invalid.", gtin),
                       exc |-> ""]
                 ELSE [st |-> st, exc |-> ""]
        ELSE IF ~(brand # "" /\ mpn # "")
        THEN [st |-> _push_issue(st, i, DictGet(r, "id", ""), "brand/mpn", "GMC-221", "error",
                         "Provide GTIN or brand + mpn.", brand \o "|" \o mpn),
              exc |-> ""]
        ELSE [st |-> st, exc |-> ""]

ApparelEnums(st, r, i, p) ==
    LET g  == Lower(DictGet(r, "gender", ""))
        ag == Lower(DictGet(r, "age_group", ""))
        s1 == IF p = "apparel" /\ g # "" /\ g \notin GMC_GENDER
              THEN _push_issue(st, i, DictGet(r, "id", ""), "gender", "GMC-230", "error",
                               "gender must be male/female/unisex.", g)
              ELSE st
    IN  IF p = "apparel" /\ ag # "" /\ ag \notin GMC_AGE
        THEN _push_issue(s1, i, DictGet(r, "id", ""), "age_group", "GMC-231", "error",
                         "age_group must be newborn/infant/toddler/kids/adult.", ag)
        ELSE s1

LocalInventoryRecommendation(st, r, i, p) ==
    IF p = "local_inventory" /\ _norm(DictGet(r, "quantity", "")) = ""
    THEN _push_issue(st, i, DictGet(r, "id", ""), "quantity", "GMC-240", "warning",
                     "quantity is recommended for local inventory.", "")
    ELSE st

\* one iteration of `for idx, r in enumerate(records)`
RowChecks(st, r, i, p) ==
    LET s3 == AvailabilityCheck(PriceCheck(RequiredChecks(st, r, i, p), r, i), r, i)
        s4 == IdentifierCheck(s3, r, i)
    IN  IF s4.exc # "" THEN s4
        ELSE [st |-> LocalInventoryRecommendation(ApparelEnums(s4.st, r, i, p), r, i, p),
              exc |-> ""]

-----------------------------------------------------------------------------
(* Aggregation *)

ISSUE_CAP == 1000

PASS_RATE_SCALE == 10000

CountSeverity(iss, sev) == Cardinality({k \in 1..Len(iss) : iss[k].severity = sev})

\* {i.row_index for i in issues if i.severity == "error" and i.row_index is not None}
ErrorRowIndexes(iss) == {iss[k].row_index : k \in {j \in 1..Len(iss) : iss[j].severity = "error"}}

\* round(num / den, 4) in units of 1/10000: nearest, ties to even
Round4(num, den) ==
    LET q == (num * PASS_RATE_SCALE) \div den
        rem2 == 2 * ((num * PASS_RATE_SCALE) % den)
    IN  IF rem2 > den \/ (rem2 = den /\ q % 2 = 1) THEN q + 1 ELSE q

\* pass_rate, in units of 1/10000
PassRate(rows, unique_error_rows) ==
    IF rows = 0 THEN 0 ELSE Round4(rows - unique_error_rows, rows)

Summary(items_total, items_with_errors, items_with_warnings, items_with_opportunities, pass_rate) ==
    [items_total |-> items_total, items_with_errors |-> items_with_errors,
     items_with_warnings |-> items_with_warnings,
     items_with_opportunities |-> items_with_opportunities, pass_rate |-> pass_rate]

ValidateResponse(iss, rows) ==
    [summary |-> Summary(rows,
                         CountSeverity(iss, "error"),
                         CountSeverity(iss, "warning"),
                         CountSeverity(iss, "opportunity"),
                         PassRate(rows, Cardinality(ErrorRowIndexes(iss)))),
     issues |-> SubSeq(iss, 1, IF Len(iss) < ISSUE_CAP THEN Len(iss) ELSE ISSUE_CAP)]

-----------------------------------------------------------------------------
(* Inputs: feeds, profiles and field specifications the checks range over *)

MaxRows == 2

S(k, v) == <<k, StrVal(v)>>

With(o, k, v) == DictSet(o, k, StrVal(v))

Without(o, k) == SelectSeq(o, LAMBDA kv : kv[1] # k)

ValidGeneral ==
    << S("id", "SKU1"), S("title", "T"), S("description", "D"),
       S("link", "https://x.com"), S("image_link", "https://x.com/i.jpg"),
       S("availability", "in_stock"), S("price", "9.99 USD"),
       S("gtin", "036000291452") >>

ValidApparel ==
    ValidGeneral \o << S("item_group_id", "G1"), S("gender", "Male"),
                       S("age_group", "adult"), S("color", "red"), S("size", "M") >>

ValidLocal ==
    << S("store_code", "ST1"), S("id", "SKU1"), S("price", "15 USD"),
       S("availability", "in_stock"), S("quantity", "3"), S("gtin", "96385074") >>

NoGtin == Without(ValidGeneral, "gtin")

\* records that follow or precede the varied one in a feed
TailPool ==
    { ValidGeneral,
      <<>>,
      With(ValidGeneral, "gtin", "036000291453") }

ObjPool ==
    TailPool \cup
    { ValidApparel,
      With(ValidGeneral, "availability", "instock"),
      ValidLocal,
      With(Without(ValidGeneral, "title"), "availability", "instock"),
      With(ValidGeneral, "title", " \t"),
      DictSet(ValidGeneral, "title", NoneVal),
      DictSet(ValidGeneral, "price", IntVal(15)),
      With(ValidGeneral, "price", "15.00usd"),
      With(ValidGeneral, "price", "USD 15.00"),
      With(ValidLocal, "store_code", ""),
      Without(ValidLocal, "quantity"),
      With(ValidApparel, "gender", "boys"),
      With(ValidApparel, "age_group", ""),
      With(ValidGeneral, "availability", "Preorder"),
      With(With(ValidGeneral, "availability", "preorder"), "availability_date", ""),
      With(With(ValidGeneral, "availability", "preorder"), "availability_date", "2025-01-31"),
      With(With(ValidGeneral, "availability", " PREORDER "), "availability_date",
           "2025-01-31T10:00:00Z"),
      With(With(ValidGeneral, "availability", "preorder"), "availability_date", "soon"),
      With(ValidGeneral, "availability_date", "soon"),
      NoGtin,
      With(NoGtin, "brand", "B"),
      With(NoGtin, "mpn", "M1"),
      With(With(NoGtin, "brand", "B"), "mpn", "M1"),
      With(With(NoGtin, "mpn", "M1"), "identifier_exists", "no"),
      With(ValidGeneral, "gtin", "0360-0029-1452"),
      With(ValidGeneral, "gtin", "1234"),
      With(ValidGeneral, "gtin", "²036000291452"),
      With(ValidGeneral, "Foo Bar", "x"),
      <<S("Image Link", "https://x.com/i.jpg"), S("price_amount", "9.99 USD"),
        S("PRICE", "free")>> }

RECURSIVE SeqsOver(_, _)
\* the sequences of exactly n elements of pool
SeqsOver(pool, n) ==
    IF n = 0 THEN {<<>>}
    ELSE {Append(t, x) : t \in SeqsOver(pool, n - 1), x \in pool}

InsertAt(t, pos, x) == SubSeq(t, 1, pos - 1) \o <<x>> \o SubSeq(t, pos, Len(t))

\* up to MaxRows elements, at most one of them outside tail
FeedRows(pool, tail) ==
    {<<>>} \cup
    UNION { {InsertAt(t, pos, x) : t \in SeqsOver(tail, n - 1), pos \in 1..n, x \in pool}
            : n \in 1..MaxRows }

JsonFeed(objs) == [fmt |-> "json", header |-> <<>>, rows |-> <<>>, objs |-> objs]

CsvFeed(header, rows) == [fmt |-> "csv", header |-> header, rows |-> rows, objs |-> <<>>]

CsvHeaders ==
    { <<>>,
      <<"id", "title", "description", "link", "Image Link", "Availability_Status",
        "price", "gtin", "brand", "mpn", "availability_date">>,
      <<"id", "Foo", "foo", "Title", "title", "price-amount">> }

\* the text of the cell of object o under header h
CellOf(o, h) ==
    LET v == DictGet(normalize_record_keys(o, 1, <<>>), normalize_key(h), NoneVal)
    IN  IF v.t = "none" THEN "" ELSE PyStr(v)

CellsOf(o, header) == [i \in 1..Len(header) |-> CellOf(o, header[i])]

CsvObjPool ==
    { ValidGeneral,
      With(Without(ValidGeneral, "title"), "availability", "instock"),
      With(With(NoGtin, "availability", "preorder"), "brand", " B ") }

\* full rows, a blank line, a row one cell short and a row one cell long
CsvRowPool(header) ==
    {CellsOf(o, header) : o \in CsvObjPool}
    \cup { <<>>,
           SubSeq(CellsOf(ValidGeneral, header), 1, Len(header) - 1),
           Append(CellsOf(ValidGeneral, header), "extra") }

CsvTailPool(header) == { CellsOf(ValidGeneral, header), CellsOf(<<>>, header) }

Feeds ==
    {JsonFeed(objs) : objs \in FeedRows(ObjPool, TailPool)}
    \cup UNION { {CsvFeed(h, rows) : rows \in FeedRows(CsvRowPool(h), CsvTailPool(h))}
                 : h \in CsvHeaders }

ProfileInputs == {"general", "apparel", "local_inventory", "", " Apparel ", "merchant"}

GeneralFields ==
    {"id", "title", "description", "link", "image_link", "availability", "price",
     "gtin", "brand", "mpn", "availability_date", "identifier_exists"}

ProfileNames == {"general", "apparel", "local_inventory"}

\* GMC_SPEC when specs/gmc_spec.json is missing
FallbackSpec == [p \in ProfileNames |-> {}]

\* GMC_SPEC for a specification file that lists the fields the rules read
FileSpec ==
    [p \in ProfileNames |->
        IF p = "general" THEN GeneralFields
        ELSE IF p = "apparel"
        THEN GeneralFields \cup {"item_group_id", "gender", "age_group", "color", "size"}
        ELSE {"store_code", "id", "price", "availability", "quantity", "gtin"}]

SpecChoices == {FallbackSpec, FileSpec}

EmptySummary == Summary(0, 0, 0, 0, 0)

-----------------------------------------------------------------------------
(* validate_gmc_bytes as a state machine *)

Init ==
    /\ data \in Feeds
    /\ profile_in \in ProfileInputs
    /\ GMC_SPEC \in SpecChoices
    /\ pc = "parse"
    /\ records = <<>>
    /\ parsed_headers = <<>>
    /\ profile = profile_in
    /\ issues = <<>>
    /\ error_rows = {}
    /\ idx = 0
    /\ total_rows = 0
    /\ response = [summary |-> EmptySummary, issues |-> <<>>]
    /\ exc = ""
    /\ g_in = ""
    /\ g_out = ""
    /\ g_flips = 0

\* parse_as_json succeeded: the else branch
ParseJson ==
    /\ pc = "parse"
    /\ data.fmt = "json"
    /\ LET parsed == parse_as_json(data.objs)
           recs == [i \in 1..Len(parsed) |-> JsonRecord(parsed[i], 1, <<>>)]
       IN  /\ records' = recs
           /\ parsed_headers' = IF Len(recs) > 0 THEN DictKeys(recs[1]) ELSE <<>>
    /\ pc' = "headers"
    /\ UNCHANGED <<data, profile_in, GMC_SPEC, profile, issues, error_rows, idx,
                   total_rows, response, exc, gtinVars>>

\* records is None: the csv.DictReader branch, every row within the header
ParseCsv ==
    /\ pc = "parse"
    /\ data.fmt = "csv"
    /\ LET rows == DictReaderRows(data.rows)
       IN  /\ \A i \in 1..Len(rows) : ~HasRestKey(data.header, rows[i])
           /\ records' = [i \in 1..Len(rows) |->
                             CsvRecord(ZipDict(data.header, rows[i], 1, <<>>), 1, <<>>)]
    /\ parsed_headers' = [i \in 1..Len(data.header) |-> normalize_key(data.header[i])]
    /\ pc' = "headers"
    /\ UNCHANGED <<data, profile_in, GMC_SPEC, profile, issues, error_rows, idx,
                   total_rows, response, exc, gtinVars>>

\* the csv.DictReader branch on a row longer than the header: (v or "").strip()
\* is applied to the list stored under restkey
ParseCsvRaises ==
    /\ pc = "parse"
    /\ data.fmt = "csv"
    /\ LET rows == DictReaderRows(data.rows)
       IN  \E i \in 1..Len(rows) : HasRestKey(data.header, rows[i])
    /\ parsed_headers' = [i \in 1..Len(data.header) |-> normalize_key(data.header[i])]
    /\ pc' = "raised"
    /\ exc' = "AttributeError"
    /\ UNCHANGED <<data, profile_in, GMC_SPEC, records, profile, issues, error_rows, idx,
                   total_rows, response, gtinVars>>

\* the header allowlist loop
CheckHeaders ==
    /\ pc = "headers"
    /\ profile' = NormalizeProfile(profile_in)
    /\ LET st == PushBadHeaders([issues |-> <<>>, error_rows |-> {}],
                                _bad_headers(parsed_headers, GMC_SPEC, profile'), profile')
       IN  /\ issues' = st.issues
           /\ error_rows' = st.error_rows
    /\ total_rows' = 0
    /\ idx' = 0
    /\ pc' = "rows"
    /\ UNCHANGED <<data, profile_in, GMC_SPEC, records, parsed_headers, response, exc,
                   gtinVars>>

\* one iteration of the per-row loop that completes
ValidateRow ==
    /\ pc = "rows"
    /\ idx < Len(records)
    /\ LET res == RowChecks([issues |-> issues, error_rows |-> error_rows],
                            records[idx + 1], idx, profile)
       IN  /\ res.exc = ""
           /\ issues' = res.st.issues
           /\ error_rows' = res.st.error_rows
    /\ total_rows' = total_rows + 1
    /\ idx' = idx + 1
    /\ UNCHANGED <<data, profile_in, GMC_SPEC, pc, records, parsed_headers, profile,
                   response, exc, gtinVars>>

\* one iteration of the per-row loop that an exception leaves
ValidateRowRaises ==
    /\ pc = "rows"
    /\ idx < Len(records)
    /\ LET res == RowChecks([issues |-> issues, error_rows |-> error_rows],
                            records[idx + 1], idx, profile)
       IN  /\ res.exc # ""
           /\ issues' = res.st.issues
           /\ error_rows' = res.st.error_rows
           /\ exc' = res.exc
    /\ total_rows' = total_rows + 1
    /\ pc' = "raised"
    /\ UNCHANGED <<data, profile_in, GMC_SPEC, records, parsed_headers, profile, idx,
                   response, gtinVars>>

\* the aggregation and the return
Aggregate ==
    /\ pc = "rows"
    /\ idx = Len(records)
    /\ response' = ValidateResponse(issues, total_rows)
    /\ pc' = "done"
    /\ UNCHANGED <<data, profile_in, GMC_SPEC, records, parsed_headers, profile, issues,
                   error_rows, idx, total_rows, exc, gtinVars>>

Next ==
    \/ ParseJson
    \/ ParseCsv
    \/ ParseCsvRaises
    \/ CheckHeaders
    \/ ValidateRow
    \/ ValidateRowRaises
    \/ Aggregate

Spec == Init /\ [][Next]_vars

-----------------------------------------------------------------------------
(* _gtin_checksum_ok called directly *)

MaxFlips == 2

GtinInputs ==
    { "036000291452", "96385074", "4006381333931", "10614141000415",
      "0360-0029-1452", " 9638 5074 ", "036000291453", "1234567", "123456789",
      "", "gtin", "²036000291452", "0360002914²52", "²1234" }

ReplaceAt(s, pos, c) == SubSeq(s, 1, pos - 1) \o c \o SubSeq(s, pos + 1, Len(s))

InitGtin ==
    /\ g_in \in GtinInputs
    /\ g_out = ""
    /\ g_flips = 0
    /\ data = JsonFeed(<<>>)
    /\ profile_in = ""
    /\ GMC_SPEC = FallbackSpec
    /\ pc = "idle"
    /\ records = <<>>
    /\ parsed_headers = <<>>
    /\ profile = ""
    /\ issues = <<>>
    /\ error_rows = {}
    /\ idx = 0
    /\ total_rows = 0
    /\ response = [summary |-> EmptySummary, issues |-> <<>>]
    /\ exc = ""

\* the first call, on the input as given
GtinCall ==
    /\ g_out = ""
    /\ g_out' = _gtin_checksum_ok(g_in)
    /\ UNCHANGED <<g_in, g_flips, feedVars>>

\* a call on the previous argument with one decimal digit replaced by another
GtinCallReplaced ==
    /\ g_out # ""
    /\ g_flips < MaxFlips
    /\ \E pos \in 1..Len(g_in), c \in DecimalSet :
          /\ IsDecimal(Ch(g_in, pos))
          /\ c # Ch(g_in, pos)
          /\ g_in' = ReplaceAt(g_in, pos, c)
          /\ g_out' = _gtin_checksum_ok(g_in')
    /\ g_flips' = g_flips + 1
    /\ UNCHANGED feedVars

NextGtin == GtinCall \/ GtinCallReplaced

SpecGtin == InitGtin /\ [][NextGtin]_vars

-----------------------------------------------------------------------------
(* Properties *)

Done == pc = "done"

RowsOf == 1..Len(records)

IssueIds == 1..Len(issues)

\* the issues the checks of record i (1-based) pushed: all but the header issues
RowIssueIds(i) ==
    {k \in IssueIds : issues[k].row_index = i - 1 /\ issues[k].rule_id # "GMC-001"}

RowErrorIds(i) == {k \in RowIssueIds(i) : issues[k].severity = "error"}

ValueOf(i, f) == Strip(DictGet(records[i], f, ""))

RequiredBucket(p) ==
    IF p = "general"
    THEN {"id", "title", "description", "link", "image_link", "availability", "price"}
    ELSE IF p = "apparel"
    THEN {"id", "title", "description", "link", "image_link", "availability", "price",
          "item_group_id", "gender", "age_group", "color", "size"}
    ELSE {"store_code", "id", "price", "availability"}

HasRequiredError(i, f) ==
    \E k \in RowErrorIds(i) :
        /\ issues[k].field = f
        /\ issues[k].rule_id \in {"GMC-100", "GMC-101", "GMC-102"}

\* a row that is the valid general row except for its title and availability
IsScenarioRow(i) ==
    /\ ValueOf(i, "title") = ""
    /\ DictGet(records[i], "availability", "") = "instock"
    /\ \A f \in {"id", "description", "link", "image_link", "price", "gtin"} :
          StrVal(DictGet(records[i], f, "")) = DictGet(ValidGeneral, f, NoneVal)

ScenarioErrors(i) ==
    /\ Cardinality(RowErrorIds(i)) = 2
    /\ \E k \in RowErrorIds(i) : issues[k].field = "title" /\ issues[k].rule_id = "GMC-100"
    /\ \E k \in RowErrorIds(i) : issues[k].field = "availability" /\ issues[k].rule_id = "GMC-210"

\* C1: in every returned report, for the profiles general, apparel and
\* local_inventory, a record has a required-value error on field f of the
\* profile's required fields exactly when its trimmed value of f is empty or
\* absent; and a general-profile row that is valid except that it has no title
\* and has availability "instock" gets exactly two errors from its checks, the
\* required title and the invalid availability.
C1_RequiredValueErrors ==
    (Done /\ profile \in ProfileNames) =>
        /\ \A i \in RowsOf : \A f \in RequiredBucket(profile) :
              HasRequiredError(i, f) <=> (ValueOf(i, f) = "")
        /\ \A i \in RowsOf : (profile = "general" /\ IsScenarioRow(i)) => ScenarioErrors(i)

C1_Witness ==
    /\ Done
    /\ profile = "general"
    /\ data.fmt = "csv"
    /\ \E i \in RowsOf :
          /\ IsScenarioRow(i)
          /\ ScenarioErrors(i)
          /\ DictHas(records[i], "title")
          /\ HasRequiredError(i, "title")
          /\ ~HasRequiredError(i, "id")

ReportIds == 1..Len(response.issues)

RowsWithSeverity(sev) ==
    {response.issues[k].row_index : k \in {j \in ReportIds : response.issues[j].severity = sev}}

\* C2: in the returned summary items_with_errors, items_with_warnings and
\* items_with_opportunities are the numbers of distinct rows with at least one
\* issue of that severity.
C2_ItemsCountDistinctRows ==
    Done =>
        /\ response.summary.items_with_errors = Cardinality(RowsWithSeverity("error"))
        /\ response.summary.items_with_warnings = Cardinality(RowsWithSeverity("warning"))
        /\ response.summary.items_with_opportunities
               = Cardinality(RowsWithSeverity("opportunity"))

CleanRecords == {i \in RowsOf : RowErrorIds(i) = {}}

\* C3: in every returned report pass_rate is 0 for no rows, otherwise the
\* number of records for which no error was raised over items_total, rounded to
\* 4 decimals; and it equals (items_total - items_with_errors) / items_total
\* for the reported items_with_errors.
C3_PassRate ==
    Done =>
        LET total == response.summary.items_total
        IN  IF total = 0 THEN response.summary.pass_rate = 0
            ELSE /\ response.summary.pass_rate = Round4(Cardinality(CleanRecords), total)
                 /\ response.summary.pass_rate
                       = Round4(total - response.summary.items_with_errors, total)

IssueKey(x) == <<x.row_index, x.field, x.message, x.severity>>

\* C4: the returned issue list holds no two entries with the same
\* (row, field, message, severity).
C4_NoDuplicateIssues ==
    Done => \A j, k \in ReportIds :
                j # k => IssueKey(response.issues[j]) # IssueKey(response.issues[k])

RECURSIVE RunRows(_, _, _, _)
\* the issues and error rows of the per-row loop over recs under profile p
RunRows(st, recs, i, p) ==
    IF i >= Len(recs) THEN st
    ELSE RunRows(RowChecks(st, recs[i + 1], i, p).st, recs, i + 1, p)

\* the report of the same headers and records under profile p
ReportUnder(p) ==
    ValidateResponse(
        RunRows(PushBadHeaders([issues |-> <<>>, error_rows |-> {}],
                               _bad_headers(parsed_headers, GMC_SPEC, p), p),
                records, 0, p).issues,
        Len(records))

\* C5: for a profile that is none of general, apparel, local_inventory the
\* report is the report of the same headers and records under "general".
C5_UnknownProfileIsGeneral ==
    (Done /\ profile \notin ProfileNames) => response = ReportUnder("general")

HeaderIssueIds(h) ==
    {k \in IssueIds : issues[k].rule_id = "GMC-001" /\ issues[k].field = h}

\* C6: every header outside the allowed set of the profile has an error issue
\* whose row is no index of a data record and marks no data row as erroneous;
\* allowed headers have none.
C6_HeaderIssuesAreFeedLevel ==
    Done =>
        \A n \in 1..Len(parsed_headers) :
            LET h == parsed_headers[n]
            IN  IF h \in AllowedHeaders(GMC_SPEC, profile)
                THEN HeaderIssueIds(h) = {}
                ELSE /\ HeaderIssueIds(h) # {}
                     /\ \A k \in HeaderIssueIds(h) :
                           /\ issues[k].severity = "error"
                           /\ issues[k].row_index \notin {i - 1 : i \in RowsOf}
                           /\ issues[k].row_index \notin error_rows

\* the value of a string of decimal digits
RECURSIVE NatOf(_)
NatOf(s) == IF Len(s) = 0 THEN 0 ELSE 10 * NatOf(SubSeq(s, 1, Len(s) - 1)) + IntOf(Ch(s, Len(s)))

\* an ISO 8601 calendar date YYYY-MM-DD
IsIsoDate(s) ==
    /\ Len(s) = 10
    /\ AllDecimal(SubSeq(s, 1, 4)) /\ AllDecimal(SubSeq(s, 6, 7)) /\ AllDecimal(SubSeq(s, 9, 10))
    /\ Ch(s, 5) = "-" /\ Ch(s, 8) = "-"
    /\ NatOf(SubSeq(s, 6, 7)) \in 1..12
    /\ NatOf(SubSeq(s, 9, 10)) \in 1..31

\* an ISO 8601 date-time YYYY-MM-DDThh:mm:ss, in UTC when it ends in Z
IsIsoDateTime(s) ==
    /\ Len(s) \in {19, 20}
    /\ IsIsoDate(SubSeq(s, 1, 10))
    /\ Ch(s, 11) = "T"
    /\ AllDecimal(SubSeq(s, 12, 13)) /\ AllDecimal(SubSeq(s, 15, 16))
    /\ AllDecimal(SubSeq(s, 18, 19))
    /\ Ch(s, 14) = ":" /\ Ch(s, 17) = ":"
    /\ NatOf(SubSeq(s, 12, 13)) \in 0..23
    /\ NatOf(SubSeq(s, 15, 16)) \in 0..59
    /\ NatOf(SubSeq(s, 18, 19)) \in 0..59
    /\ (Len(s) = 20 => Ch(s, 20) = "Z")

RECURSIVE DecimalDigitsOf(_)
\* s without the characters that are not 0..9
DecimalDigitsOf(s) ==
    IF Len(s) = 0 THEN ""
    ELSE (IF IsDecimal(Ch(s, 1)) THEN Ch(s, 1) ELSE "") \o DecimalDigitsOf(Tail(s))

RECURSIVE SumFromRight(_, _)
\* the sum over the digits at distance j, j + 1, ... to the left of the check
\* digit, weighted 3 at odd distance and 1 at even distance
SumFromRight(d, j) ==
    IF j >= Len(d) THEN 0
    ELSE (IF j % 2 = 1 THEN 3 ELSE 1) * IntOf(Ch(d, Len(d) - j)) + SumFromRight(d, j + 1)

\* the GS1 condition: 8, 12, 13 or 14 digits and a matching check digit
GtinValid(s) ==
    LET d == DecimalDigitsOf(s)
    IN  /\ Len(d) \in {8, 12, 13, 14}
        /\ IntOf(Ch(d, Len(d))) = (10 - (SumFromRight(d, 1) % 10)) % 10

\* C7: _gtin_checksum_ok(s) is true exactly when s, stripped of its non-digit
\* characters, has 8, 12, 13 or 14 digits and its last digit is the GS1 check
\* digit of the others.
C7_GtinChecksumExact == g_out # "" => (g_out = "true" <=> GtinValid(g_in))

\* C7, second part: a call on an accepted string with one digit replaced by a
\* different digit does not accept.
C7_ReplacedDigitRejected == [][(g_out = "true" /\ g_in' # g_in) => g_out' # "true"]_vars

AbsentIdentifiers(i) == {f \in {"brand", "mpn"} : ValueOf(i, f) = ""}

IdentifierErrorIds(i) ==
    {k \in RowErrorIds(i) : issues[k].field \in {"brand", "mpn", "brand/mpn", "identifier"}}

GtinRecommendationIds(i) ==
    {k \in RowIssueIds(i) :
        /\ issues[k].severity = "warning"
        /\ issues[k].field \in {"gtin", "identifier", "brand/mpn"}}

GtinIssueIds(i) == {k \in RowIssueIds(i) : issues[k].field = "gtin"}

\* C8: a record with an empty gtin gets an error when brand or mpn is empty,
\* and none when both are given; the error tells which of brand, mpn or both is
\* absent, so records that lack different ones get different errors; it gets a
\* warning recommending GTIN unless identifier_exists is "no".  A record with a
\* gtin gets no brand/mpn error, and a gtin issue exactly when the GS1 check
\* fails.
C8_IdentifierRule ==
    Done =>
        \A i \in RowsOf :
            IF ValueOf(i, "gtin") = ""
            THEN /\ (AbsentIdentifiers(i) # {}) <=> (IdentifierErrorIds(i) # {})
                 /\ \A j \in RowsOf :
                       (/\ ValueOf(j, "gtin") = ""
                        /\ AbsentIdentifiers(j) # {}
                        /\ AbsentIdentifiers(i) # {}
                        /\ AbsentIdentifiers(j) # AbsentIdentifiers(i))
                       => \A k \in IdentifierErrorIds(i), l \in IdentifierErrorIds(j) :
                              <<issues[k].field, issues[k].message>>
                                  # <<issues[l].field, issues[l].message>>
                 /\ (DictGet(records[i], "identifier_exists", "") # "no")
                        <=> (GtinRecommendationIds(i) # {})
            ELSE /\ IdentifierErrorIds(i) = {}
                 /\ (GtinIssueIds(i) # {}) <=> ~GtinValid(ValueOf(i, "gtin"))

AvailabilityDateErrorIds(i) ==
    {k \in RowErrorIds(i) : issues[k].field = "availability_date"}

\* C9: a record whose availability is preorder, in any letter case, gets
\* exactly one availability_date error when its availability_date is empty or
\* absent and none when it is a valid ISO 8601 date or date-time; a record
\* whose availability is not preorder gets none.
C9_PreorderDate ==
    Done =>
        \A i \in RowsOf :
            LET ad == DictGet(records[i], "availability_date", "")
            IN  IF Lower(DictGet(records[i], "availability", "")) = "preorder"
                THEN /\ ad = "" => Cardinality(AvailabilityDateErrorIds(i)) = 1
                     /\ (IsIsoDate(ad) \/ IsIsoDateTime(ad)) => AvailabilityDateErrorIds(i) = {}
                ELSE AvailabilityDateErrorIds(i) = {}

\* C10: validate_gmc_bytes never raises while it evaluates a feed.
C10_NeverRaises == pc # "raised"

====
